---------------------------- MODULE Spec2Model ----------------------------
(***************************************************************************)
(* A model of the beets-database reader (crate `db`): the error type, the  *)
(* entity schemas generated by def_sqlite_struct!, the field decoders, the *)
(* per-table reader and the library loader read_all(path).                 *)
(*                                                                         *)
(* The storage engine (rusqlite) is modelled by what the crate relies on:  *)
(* open, prepare, query, step, and the typed column read Row::get.         *)
(*                                                                         *)
(* Conventions: Option<T> is a sequence of length 0 (None) or 1 (Some);    *)
(* Result<T,E> is [ok |-> TRUE, v |-> _] or [ok |-> FALSE, e |-> _];       *)
(* strings and paths are sequences of Unicode code points; byte strings    *)
(* are sequences of bytes; an f64 is counted in halves (1.5 is 3).         *)
(***************************************************************************)
EXTENDS Integers, Sequences, FiniteSets, TLC

\* Longest byte string stored in a TEXT or BLOB cell of the sampled files.
MaxBytes == 2
\* Most rows a table of the sampled files holds.
MaxRows == 2

None == << >>
Some(x) == << x >>
Ok(v) == [ok |-> TRUE, v |-> v]
Err(e) == [ok |-> FALSE, e |-> e]

(***************************************************************************)
(* Error model                                                             *)
(***************************************************************************)
\* struct TableColumn { table, column }
TableColumn(table, column) == [table |-> table, column |-> column]
NoTableColumn == TableColumn("", "")

\* enum ErrorKind { Row(TableColumn), Open, Query, UnknownTransparent }
ErrorKindRow(tc) == [tag |-> "Row", tc |-> tc]
ErrorKindOpen == [tag |-> "Open", tc |-> NoTableColumn]
ErrorKindQuery == [tag |-> "Query", tc |-> NoTableColumn]
ErrorKindUnknownTransparent == [tag |-> "UnknownTransparent", tc |-> NoTableColumn]

\* struct Error { source: rusqlite::Error, kind: ErrorKind }
Error(source, kind) == [source |-> source, kind |-> kind]

\* A storage-engine error: its variant, the column index it names (-1 when
\* it names none), its message, and its own cause (Option).
EngineError(name, idx, msg, cause) ==
  [name |-> name, idx |-> idx, msg |-> msg, cause |-> cause]
\* The lower-level error a storage-engine error reports as its own source.
Cause(name) == EngineError(name, -1, "", None)

\* impl From<rusqlite::Error> for Error
From(source) == Error(source, ErrorKindUnknownTransparent)

\* Display of the wrapped storage-engine error, as a list of text pieces.
EngineDisplay(src) == << src.name, ": ", src.msg >>

\* {x:?} of a &'static str: the text between double quotes.
DebugStr(s) == << "\"", s, "\"" >>

\* A source() that is not transparent for UnknownTransparent.
ErrorSourceOpaque(e) == Some(e.source)

\* impl std::error::Error for Error: fn source
ErrorSource(e) ==
  IF e.kind.tag \in {"Row", "Open", "Query"}
    THEN Some(e.source)
    ELSE e.source.cause

\* impl std::fmt::Display for Error
ErrorDisplay(e) ==
  CASE e.kind.tag = "Row" ->
         << "failed to get column " >> \o DebugStr(e.kind.tc.column)
           \o << " in table " >> \o DebugStr(e.kind.tc.table)
    [] e.kind.tag = "Open" -> << "failed to open database" >>
    [] e.kind.tag = "Query" -> << "failed to query database" >>
    [] OTHER -> EngineDisplay(e.source)

(***************************************************************************)
(* Stored values and the engine's typed column read                        *)
(***************************************************************************)
Null == [t |-> "Null"]
Integer(i) == [t |-> "Integer", i |-> i]
Real(h) == [t |-> "Real", h |-> h]
Text(b) == [t |-> "Text", b |-> b]
Blob(b) == [t |-> "Blob", b |-> b]

I32Max == 2147483647
ReplacementChar == 65533

\* UTF-8 restricted to one- and two-byte sequences (bytes below 224).
IsAscii(b) == b < 128
IsLead2(b) == b >= 194 /\ b <= 223
IsCont(b) == b >= 128 /\ b <= 191

RECURSIVE Utf8Valid(_)
Utf8Valid(bs) ==
  IF bs = << >> THEN TRUE
  ELSE IF IsAscii(Head(bs)) THEN Utf8Valid(Tail(bs))
  ELSE IF IsLead2(Head(bs)) /\ Len(bs) >= 2 /\ IsCont(bs[2])
    THEN Utf8Valid(Tail(Tail(bs)))
  ELSE FALSE

\* The code points of a valid byte string (str::from_utf8 on a TEXT value).
RECURSIVE Utf8Decode(_)
Utf8Decode(bs) ==
  IF bs = << >> THEN << >>
  ELSE IF IsAscii(Head(bs)) THEN << Head(bs) >> \o Utf8Decode(Tail(bs))
  ELSE << (Head(bs) - 192) * 64 + (bs[2] - 128) >> \o Utf8Decode(Tail(Tail(bs)))

\* A lossy decoding that replaces every byte outside ASCII.
RECURSIVE from_utf8_lossy_ascii(_)
from_utf8_lossy_ascii(bs) ==
  IF bs = << >> THEN << >>
  ELSE << IF IsAscii(Head(bs)) THEN Head(bs) ELSE ReplacementChar >>
         \o from_utf8_lossy_ascii(Tail(bs))

\* String::from_utf8_lossy: every invalid byte becomes U+FFFD.
RECURSIVE from_utf8_lossy(_)
from_utf8_lossy(bs) ==
  IF bs = << >> THEN << >>
  ELSE IF IsAscii(Head(bs)) THEN << Head(bs) >> \o from_utf8_lossy(Tail(bs))
  ELSE IF IsLead2(Head(bs)) /\ Len(bs) >= 2 /\ IsCont(bs[2])
    THEN << (Head(bs) - 192) * 64 + (bs[2] - 128) >>
           \o from_utf8_lossy(Tail(Tail(bs)))
  ELSE << ReplacementChar >> \o from_utf8_lossy(Tail(bs))

IsOption(typ) ==
  typ \in {"Option<u32>", "Option<i32>", "Option<f64>", "Option<String>",
           "Option<Vec<u8>>"}
OptionInner(typ) ==
  CASE typ = "Option<u32>" -> "u32"
    [] typ = "Option<i32>" -> "i32"
    [] typ = "Option<f64>" -> "f64"
    [] typ = "Option<String>" -> "String"
    [] typ = "Option<Vec<u8>>" -> "Vec<u8>"

\* rusqlite FromSql for the plain field types the schemas declare.  Stored
\* integers are 64-bit; the model's integers stay below 2^31, so of the
\* u32 range only the lower end can be missed.
FromSqlPlain(typ, v) ==
  CASE typ = "u32" ->
         IF v.t # "Integer" THEN Err("InvalidType")
         ELSE IF v.i < 0 THEN Err("OutOfRange")
         ELSE Ok(v.i)
    [] typ = "i32" ->
         IF v.t # "Integer" THEN Err("InvalidType")
         ELSE IF v.i < -I32Max - 1 \/ v.i > I32Max THEN Err("OutOfRange")
         ELSE Ok(v.i)
    [] typ = "f64" ->
         IF v.t = "Real" THEN Ok(v.h)
         ELSE IF v.t = "Integer" THEN Ok(v.i * 2)
         ELSE Err("InvalidType")
    [] typ = "bool" ->
         IF v.t = "Integer" THEN Ok(v.i # 0) ELSE Err("InvalidType")
    [] typ = "String" ->
         IF v.t # "Text" THEN Err("InvalidType")
         ELSE IF Utf8Valid(v.b) THEN Ok(Utf8Decode(v.b))
         ELSE Err("Utf8Error")
    [] typ = "Vec<u8>" ->
         IF v.t = "Blob" THEN Ok(v.b) ELSE Err("InvalidType")

\* Result::map(Some)
MapSome(r) == IF r.ok THEN Ok(Some(r.v)) ELSE r

\* FromSql for Option<T>: NULL is None, anything else is read as T.
FromSql(typ, v) ==
  IF ~IsOption(typ) THEN FromSqlPlain(typ, v)
  ELSE IF v.t = "Null" THEN Ok(None)
  ELSE MapSome(FromSqlPlain(OptionInner(typ), v))

\* The engine error Row::get makes of a failed conversion of the cell at idx.
ColumnError(r, idx, cell) ==
  IF r.ok THEN r
  ELSE IF r.e = "InvalidType"
    THEN Err(EngineError("InvalidColumnType", idx, cell.t, None))
  ELSE IF r.e = "OutOfRange"
    THEN Err(EngineError("IntegralValueOutOfRange", idx, "", None))
  ELSE Err(EngineError("FromSqlConversionFailure", idx, cell.t, Some(Cause(r.e))))

\* rusqlite Row::get: the cell at 0-based index idx of a result row, as typ.
RowGet(row, idx, typ) ==
  IF idx < 0 \/ idx >= Len(row)
    THEN Err(EngineError("InvalidColumnIndex", idx, "", None))
    ELSE ColumnError(FromSql(typ, row[idx + 1]), idx, row[idx + 1])

(***************************************************************************)
(* Field decoders                                                          *)
(***************************************************************************)
\* struct LocalRow(&Row, TableColumn) and LocalRow::get
LocalRow(row, tc) == [row |-> row, tc |-> tc]
\* .map_err(|source| Error { source, kind: ErrorKind::Row(table_column) })
RowError(r, tc) == IF r.ok THEN r ELSE Err(Error(r.e, ErrorKindRow(tc)))
LocalRowGet(lrow, idx, typ) == RowError(RowGet(lrow.row, idx, typ), lrow.tc)

\* String::from(String::from_utf8_lossy(&v)).into()
blob_to_path(v) == from_utf8_lossy(v)

\* let value: Vec<u8> = row.get(idx)?; Ok(from_utf8_lossy(&value).to_string())
LossyString(value) == IF value.ok THEN Ok(from_utf8_lossy(value.v)) ELSE value

\* A fallback that reports the first (text) attempt's error.
OrElseBlobFirstError(text, lrow, idx) ==
  IF text.ok THEN Ok(text.v)
  ELSE IF LocalRowGet(lrow, idx, "Vec<u8>").ok
    THEN LossyString(LocalRowGet(lrow, idx, "Vec<u8>"))
  ELSE text

\* row.get(idx).or_else(|_| ..).map(String::into)
OrElseBlob(text, lrow, idx) ==
  IF text.ok THEN Ok(text.v) ELSE LossyString(LocalRowGet(lrow, idx, "Vec<u8>"))
str_or_blob_to_path(lrow, idx) ==
  OrElseBlob(LocalRowGet(lrow, idx, "String"), lrow, idx)

\* Ok(value.map(blob_to_path)), after the ? on the read
MapBlobToPath(value) ==
  IF ~value.ok THEN value
  ELSE IF value.v = None THEN Ok(None)
  ELSE Ok(Some(blob_to_path(value.v[1])))
optional_blob_to_path(lrow, idx) ==
  MapBlobToPath(LocalRowGet(lrow, idx, "Option<Vec<u8>>"))

\* T::default() of a field type.
DefaultOf(typ) ==
  CASE typ \in {"u32", "i32", "f64"} -> 0
    [] typ = "bool" -> FALSE
    [] typ \in {"String", "PathBuf"} -> << >>
    [] OTHER -> None

\* fn is_num_zero<T: Default + PartialEq>(n: &T) -> bool
is_num_zero(typ, n) == n = DefaultOf(typ)

(***************************************************************************)
(* Entity schemas                                                          *)
(***************************************************************************)
\* One declared field: its name, type, decoder ($func) and the predicate
\* of its skip_serializing_if attribute.
F(name, typ, func, skip) ==
  [name |-> name, typ |-> typ, func |-> func, skip |-> skip]

\* 31 fields, lines 222-280
AlbumFields ==
  << F("id", "u32", "", ""),
     F("artpath", "Option<PathBuf>", "optional_blob_to_path", ""),
     F("added", "f64", "", "skip"),
     F("albumartist", "String", "", ""),
     F("albumartist_sort", "String", "", "String::is_empty"),
     F("albumartist_credit", "String", "", "String::is_empty"),
     F("album", "String", "", ""),
     F("genre", "String", "", "String::is_empty"),
     F("year", "u32", "", "is_num_zero"),
     F("month", "u32", "", "is_num_zero"),
     F("day", "u32", "", "is_num_zero"),
     F("disctotal", "u32", "", "is_num_zero"),
     F("comp", "bool", "", ""),
     F("mb_albumid", "String", "", "String::is_empty"),
     F("mb_albumartistid", "String", "", "String::is_empty"),
     F("albumtype", "String", "", "String::is_empty"),
     F("label", "String", "", "String::is_empty"),
     F("mb_releasegroupid", "String", "", "String::is_empty"),
     F("asin", "String", "", "String::is_empty"),
     F("catalognum", "String", "", "String::is_empty"),
     F("script", "String", "", "String::is_empty"),
     F("language", "String", "", "String::is_empty"),
     F("country", "String", "", "String::is_empty"),
     F("albumstatus", "String", "", "String::is_empty"),
     F("albumdisambig", "String", "", "String::is_empty"),
     F("rg_album_gain", "Option<f64>", "", "Option::is_none"),
     F("rg_album_peak", "Option<f64>", "", "Option::is_none"),
     F("r128_album_gain", "Option<i32>", "", "is_num_zero"),
     F("original_year", "u32", "", "is_num_zero"),
     F("original_month", "u32", "", "is_num_zero"),
     F("original_day", "u32", "", "is_num_zero") >>

\* 66 fields, lines 287-414
ItemFields ==
  << F("id", "u32", "", ""),
     F("path", "PathBuf", "str_or_blob_to_path", ""),
     F("album_id", "Option<u32>", "", "Option::is_none"),
     F("title", "String", "", ""),
     F("artist", "String", "", ""),
     F("artist_sort", "String", "", "String::is_empty"),
     F("artist_credit", "String", "", "String::is_empty"),
     F("album", "String", "", "String::is_empty"),
     F("albumartist", "String", "", "String::is_empty"),
     F("albumartist_sort", "String", "", "String::is_empty"),
     F("albumartist_credit", "String", "", "String::is_empty"),
     F("genre", "String", "", "String::is_empty"),
     F("lyricist", "String", "", "String::is_empty"),
     F("composer", "String", "", "String::is_empty"),
     F("composer_sort", "String", "", "String::is_empty"),
     F("arranger", "String", "", "String::is_empty"),
     F("grouping", "String", "", "String::is_empty"),
     F("year", "u32", "", "is_num_zero"),
     F("month", "u32", "", "is_num_zero"),
     F("day", "u32", "", "is_num_zero"),
     F("track", "u32", "", "is_num_zero"),
     F("tracktotal", "u32", "", "is_num_zero"),
     F("disc", "u32", "", "is_num_zero"),
     F("disctotal", "u32", "", "is_num_zero"),
     F("lyrics", "String", "", "String::is_empty"),
     F("comments", "String", "", "String::is_empty"),
     F("bpm", "u32", "", "is_num_zero"),
     F("comp", "bool", "", ""),
     F("mb_trackid", "String", "", "String::is_empty"),
     F("mb_albumid", "String", "", "String::is_empty"),
     F("mb_artistid", "String", "", "String::is_empty"),
     F("mb_albumartistid", "String", "", "String::is_empty"),
     F("mb_releasetrackid", "String", "", "String::is_empty"),
     F("albumtype", "String", "", "String::is_empty"),
     F("label", "String", "", "String::is_empty"),
     F("acoustid_fingerprint", "String", "", "String::is_empty"),
     F("acoustid_id", "String", "", "String::is_empty"),
     F("mb_releasegroupid", "String", "", "String::is_empty"),
     F("asin", "String", "", "String::is_empty"),
     F("catalognum", "String", "", "String::is_empty"),
     F("script", "String", "", "String::is_empty"),
     F("language", "String", "", "String::is_empty"),
     F("country", "String", "", "String::is_empty"),
     F("albumstatus", "String", "", "String::is_empty"),
     F("media", "String", "", "String::is_empty"),
     F("albumdisambig", "String", "", "String::is_empty"),
     F("disctitle", "String", "", "String::is_empty"),
     F("encoder", "String", "", "String::is_empty"),
     F("rg_track_gain", "Option<f64>", "", "Option::is_none"),
     F("rg_track_peak", "Option<f64>", "", "Option::is_none"),
     F("rg_album_gain", "Option<f64>", "", "Option::is_none"),
     F("rg_album_peak", "Option<f64>", "", "Option::is_none"),
     F("r128_track_gain", "Option<f64>", "", "is_num_zero"),
     F("r128_album_gain", "Option<f64>", "", "is_num_zero"),
     F("original_year", "u32", "", "is_num_zero"),
     F("original_month", "u32", "", "is_num_zero"),
     F("original_day", "u32", "", "is_num_zero"),
     F("initial_key", "Option<String>", "", "Option::is_none"),
     F("length", "f64", "", ""),
     F("bitrate", "u32", "", "is_num_zero"),
     F("format", "String", "", "String::is_empty"),
     F("samplerate", "u32", "", "is_num_zero"),
     F("bitdepth", "u32", "", "is_num_zero"),
     F("channels", "u32", "", "is_num_zero"),
     F("mtime", "f64", "", "skip"),
     F("added", "f64", "", "skip") >>


Album == [name |-> "Album", table |-> "albums", fields |-> AlbumFields]
Item == [name |-> "Item", table |-> "items", fields |-> ItemFields]

\* $(stringify!($field), ",",)*: each field's name, then a comma.
FieldPieces(fields) ==
  [j \in 1 .. 2 * Len(fields) |->
     IF j % 2 = 1 THEN fields[(j + 1) \div 2].name ELSE ","]

\* concat!("SELECT ", $(stringify!($field), ",",)* "id FROM ", $table)
SQL_QUERY(S) == << "SELECT " >> \o FieldPieces(S.fields) \o << "id FROM ", S.table >>

\* &[ $(stringify!($field)),* ]
COLUMNS(S) == [k \in 1 .. Len(S.fields) |-> S.fields[k].name]

\* def_field!: the field's own decoder, or LocalRow::get for its type.
def_field(lrow, field_idx, f) ==
  CASE f.func = "str_or_blob_to_path" -> str_or_blob_to_path(lrow, field_idx)
    [] f.func = "optional_blob_to_path" -> optional_blob_to_path(lrow, field_idx)
    [] OTHER -> LocalRowGet(lrow, field_idx, f.typ)

\* A binder that forgets to advance the index.
NextFieldIdxStuck(field_idx) == field_idx

\* field_idx__ += 1
NextFieldIdx(field_idx) == field_idx + 1

\* TableColumn { table: stringify!($name), column: stringify!($field) }
FieldTableColumn(S, f) == TableColumn(S.name, f.name)

\* let mut field_idx__ = 0, advanced once after each earlier field: the
\* index at which the k-th declared field is decoded.
RECURSIVE Advance(_, _)
Advance(field_idx, n) ==
  IF n = 0 THEN field_idx
  ELSE IF n = 1 THEN NextFieldIdx(field_idx)
  ELSE CHOOSE idx \in {Advance(mid, n - n \div 2) :
                           mid \in {Advance(field_idx, n \div 2)}} : TRUE
FieldIdxs ==
  [k \in 1 .. (IF Len(AlbumFields) > Len(ItemFields) THEN Len(AlbumFields)
                                                    ELSE Len(ItemFields))
     |-> Advance(0, k - 1)]
FieldIdx(k) == FieldIdxs[k]

\* let $field = def_field!(row, field_idx__ $(, $func)?)
DecodeField(S, row, k) ==
  def_field(LocalRow(row, FieldTableColumn(S, S.fields[k])), FieldIdx(k), S.fields[k])

\* The ? after each field: the first field that fails ends from_row.
FailedFields(S, row) == {k \in 1 .. Len(S.fields) : ~DecodeField(S, row, k).ok}
FirstFailed(S, row) ==
  CHOOSE k \in FailedFields(S, row) : \A j \in FailedFields(S, row) : k <= j

FieldPos(S, c) == CHOOSE k \in 1 .. Len(S.fields) : S.fields[k].name = c

\* from_row: the entity of all decoded fields, or the first failure; reads
\* lists the indices handed to the decoders.
from_row(S, row) ==
  IF FailedFields(S, row) = {}
    THEN [res |-> Ok([c \in {S.fields[k].name : k \in 1 .. Len(S.fields)} |->
                        DecodeField(S, row, FieldPos(S, c)).v]),
          reads |-> [k \in 1 .. Len(S.fields) |-> FieldIdx(k)]]
    ELSE [res |-> Err(DecodeField(S, row, FirstFailed(S, row)).e),
          reads |-> [k \in 1 .. FirstFailed(S, row) |-> FieldIdx(k)]]

(***************************************************************************)
(* The storage engine, as the readers use it                               *)
(***************************************************************************)
\* The result columns a query text selects, and the table it reads.
SelectColumns(q) ==
  SelectSeq(SubSeq(q, 2, Len(q) - 2), LAMBDA p : p # ",") \o << "id" >>
FromTable(q) == q[Len(q)]

\* Connection::prepare: the table and every selected column must exist.
Prepare(db, q) ==
  IF FromTable(q) \notin DOMAIN db
    THEN Err(EngineError("SqliteFailure", -1, "no such table", Some(Cause("ffi::Error"))))
  ELSE IF \E j \in 1 .. Len(SelectColumns(q)) :
            SelectColumns(q)[j] \notin db[FromTable(q)].columns
    THEN Err(EngineError("SqliteFailure", -1, "no such column", Some(Cause("ffi::Error"))))
  ELSE Ok([table |-> FromTable(q), cols |-> SelectColumns(q)])

\* Statement::query_and_then((), f): binding the (empty) parameter list.
Query(db, stmt) ==
  IF db[stmt.table].rejects
    THEN Err(EngineError("InvalidParameterCount", -1, "", None))
    ELSE Ok(stmt)

\* The k-th step of the cursor: the selected cells of the k-th stored row,
\* or the engine's failure to read it.
Step(db, stmt, k) ==
  LET stored == db[stmt.table].rows[k]
  IN IF stored.corrupt
       THEN Err(EngineError("SqliteFailure", -1, "database disk image is malformed",
                            Some(Cause("ffi::Error"))))
       ELSE Ok([j \in 1 .. Len(stmt.cols) |-> stored.cells[stmt.cols[j]]])

(***************************************************************************)
(* Table Reader                                                            *)
(***************************************************************************)
\* for row in rows { v.push(row?); }: rows 1..k-1 are bound in v; binds
\* lists, per row handed to from_row, its number and the indices read.
\* ReadRow is the cursor's next(): the step's error through From, or
\* from_row on the row; PushRow is v.push(row?) on what from_row returned.
RECURSIVE ReadRows(_, _, _, _, _, _)
RECURSIVE ReadRow(_, _, _, _, _, _, _)
RECURSIVE PushRow(_, _, _, _, _, _, _)
\* A loop that skips a row that does not bind.
PushRowSkip(S, db, stmt, k, v, binds, b) ==
  ReadRows(S, db, stmt, k + 1, IF b.res.ok THEN Append(v, b.res.v) ELSE v,
           Append(binds, [row |-> k, reads |-> b.reads]))

PushRow(S, db, stmt, k, v, binds, b) ==
  IF ~b.res.ok
    THEN [res |-> Err(b.res.e), binds |-> Append(binds, [row |-> k, reads |-> b.reads])]
    ELSE ReadRows(S, db, stmt, k + 1, Append(v, b.res.v),
                  Append(binds, [row |-> k, reads |-> b.reads]))
ReadRow(S, db, stmt, k, v, binds, step) ==
  IF ~step.ok THEN [res |-> Err(From(step.e)), binds |-> binds]
  ELSE PushRow(S, db, stmt, k, v, binds, from_row(S, step.v))
ReadRows(S, db, stmt, k, v, binds) ==
  IF k > Len(db[stmt.table].rows) THEN [res |-> Ok(v), binds |-> binds]
  ELSE ReadRow(S, db, stmt, k, v, binds, Step(db, stmt, k))

\* c.prepare(Self::SQL_QUERY)?
PrepareError(source) == From(source)
\* .map_err(|source| Error { source, kind: ErrorKind::Query })?
QueryError(source) == Error(source, ErrorKindQuery)

\* stmt.query_and_then((), Self::from_row).map_err(..)? and the loop
QueryAndThen(S, db, rows) ==
  IF ~rows.ok THEN [res |-> Err(QueryError(rows.e)), binds |-> << >>]
  ELSE ReadRows(S, db, rows.v, 1, << >>, << >>)

Prepared(S, db, stmt) ==
  IF ~stmt.ok THEN [res |-> Err(PrepareError(stmt.e)), binds |-> << >>]
  ELSE QueryAndThen(S, db, Query(db, stmt.v))

\* $name::read_all(c)
read_all(S, db) == Prepared(S, db, Prepare(db, SQL_QUERY(S)))

(***************************************************************************)
(* The files read_all(path) is given                                       *)
(***************************************************************************)
Bytes == {65, 169, 195}
RECURSIVE ByteStrings(_)
ByteStrings(n) ==
  IF n = 0 THEN {<< >>}
  ELSE ByteStrings(n - 1)
         \cup {Append(b, x) : b \in {c \in ByteStrings(n - 1) : Len(c) = n - 1},
                              x \in Bytes}

\* Every kind of value a cell may hold: all of them, with every byte
\* string, in the path columns; a sample of each kind elsewhere.
ScalarValues == {Null, Integer(0), Integer(5), Integer(-1), Real(0), Real(3)}
CellValues ==
  ScalarValues
    \cup {Text(b) : b \in ByteStrings(MaxBytes)}
    \cup {Blob(b) : b \in ByteStrings(MaxBytes)}
CellChoices(f) ==
  IF f.func # "" THEN CellValues
  ELSE ScalarValues \cup {Text(<< 65 >>), Text(<< 195 >>), Blob(<< 65 >>)}

ColumnNames(S) == {S.fields[k].name : k \in 1 .. Len(S.fields)}
FieldNamed(S, c) == S.fields[FieldPos(S, c)]

\* A well-formed cell of row number id for a declared field.
GoodCell(f, id) ==
  CASE f.typ = "u32" -> Integer(id)
    [] f.typ = "f64" -> Real(3)
    [] f.typ = "bool" -> Integer(1)
    [] f.typ = "String" -> Text(<< 65 >>)
    [] f.typ \in {"PathBuf", "Option<PathBuf>"} -> Blob(<< 65, 195, 169 >>)
    [] OTHER -> Null

GoodRow(S, id) ==
  [corrupt |-> FALSE, cells |-> [c \in ColumnNames(S) |-> GoodCell(FieldNamed(S, c), id)]]
WithCell(r, c, v) == [r EXCEPT !.cells[c] = v]
CorruptRow(S, id) == [GoodRow(S, id) EXCEPT !.corrupt = TRUE]

\* The rows a many-row table may hold at position id: a good row, a row
\* whose path column holds a number, a row whose last declared column is
\* NULL, or a row the engine cannot read.
RowChoices(S, id) ==
  {GoodRow(S, id),
   WithCell(GoodRow(S, id), S.fields[2].name, Integer(7)),
   WithCell(GoodRow(S, id), S.fields[Len(S.fields)].name, Null),
   CorruptRow(S, id)}

RECURSIVE RowSeqs(_, _)
RowSeqs(S, n) ==
  IF n = 0 THEN {<< >>}
  ELSE RowSeqs(S, n - 1)
         \cup {Append(rs, r) : rs \in {x \in RowSeqs(S, n - 1) : Len(x) = n - 1},
                               r \in RowChoices(S, n)}

Table(columns, rows, rejects) ==
  [columns |-> columns, rows |-> rows, rejects |-> rejects]
GoodTable(S) == Table(ColumnNames(S), << GoodRow(S, 1) >>, FALSE)

\* Tables of up to MaxRows rows, tables lacking a declared column, and a
\* table whose statement the engine refuses to run.
ManyRowTables(S) ==
  {Table(ColumnNames(S), rs, FALSE) : rs \in RowSeqs(S, MaxRows)}
    \cup {Table(ColumnNames(S) \ {c}, << >>, FALSE) :
            c \in {S.fields[2].name, S.fields[Len(S.fields)].name}}
    \cup {Table(ColumnNames(S), << >>, TRUE)}

\* One-row tables in which one cell holds any kind of value.
OneCellTables(S) ==
  UNION {{Table(ColumnNames(S), << WithCell(GoodRow(S, 1), S.fields[k].name, v) >>, FALSE) :
            v \in CellChoices(S.fields[k])} : k \in 1 .. Len(S.fields)}

\* An empty table, a one-row table, a table lacking a column, a table
\* whose only row does not bind.
FewTables(S) ==
  {Table(ColumnNames(S), << >>, FALSE),
   GoodTable(S),
   Table(ColumnNames(S) \ {S.fields[2].name}, << >>, FALSE),
   Table(ColumnNames(S), << WithCell(GoodRow(S, 1), S.fields[2].name, Integer(7)) >>, FALSE)}

Database(albums, items) == [albums |-> albums, items |-> items]
Databases ==
  {Database(a, i) : a \in ManyRowTables(Album), i \in FewTables(Item)}
    \cup {Database(a, i) : a \in FewTables(Album), i \in ManyRowTables(Item)}
    \cup {Database(a, GoodTable(Item)) : a \in OneCellTables(Album)}
    \cup {Database(GoodTable(Album), i) : i \in OneCellTables(Item)}

OpenFailures ==
  {EngineError("SqliteFailure", -1, "unable to open database file", Some(Cause("ffi::Error"))),
   EngineError("SqliteFailure", -1, "file is not a database", Some(Cause("ffi::Error"))),
   EngineError("NulError", -1, "nul byte found in provided data", Some(Cause("NulError")))}

Files ==
  {[opens |-> FALSE, err |-> e, db |-> Database(GoodTable(Album), GoodTable(Item))] :
     e \in OpenFailures}
    \cup {[opens |-> TRUE, err |-> EngineError("", -1, "", None), db |-> d] :
            d \in Databases}

(***************************************************************************)
(* Library Loader: read_all(db_path)                                       *)
(***************************************************************************)
VARIABLES
  pc,      \* "start", "albums", "items" or "done"
  file,    \* Option: what db_path names
  conn,    \* Option: the open connection's database
  albums,  \* Option: what Album::read_all returned, with its binds
  items,   \* Option: what Item::read_all returned, with its binds
  calls,   \* the Table Readers started, in order
  ret      \* Option: the Result read_all returned

vars == << pc, file, conn, albums, items, calls, ret >>

Init ==
  /\ pc = "start"
  /\ file = None
  /\ conn = None
  /\ albums = None
  /\ items = None
  /\ calls = << >>
  /\ ret = None

\* An open failure passed through the From conversion.
OpenErrorUnclassified(source) == Error(source, ErrorKindUnknownTransparent)

\* .map_err(|source| Error { source, kind: ErrorKind::Open })
OpenError(source) == Error(source, ErrorKindOpen)

\* Connection::open_with_flags(db_path, SQLITE_OPEN_READ_ONLY).map_err(..)?
Open ==
  /\ pc = "start"
  /\ \E f \in Files :
       /\ file' = Some(f)
       /\ IF f.opens
            THEN /\ conn' = Some(f.db)
                 /\ pc' = "albums"
                 /\ ret' = ret
            ELSE /\ conn' = None
                 /\ pc' = "done"
                 /\ ret' = Some(Err(OpenError(f.err)))
  /\ UNCHANGED << albums, items, calls >>

\* A loader that goes on to the items after the albums failed.
AlbumReadAllContinue ==
  /\ pc = "albums"
  /\ albums' = Some(read_all(Album, conn[1]))
  /\ calls' = Append(calls, "Album")
  /\ pc' = "items"
  /\ UNCHANGED << file, conn, items, ret >>

\* Album::read_all(&conn)?
AlbumReadAll ==
  /\ pc = "albums"
  /\ albums' = Some(read_all(Album, conn[1]))
  /\ calls' = Append(calls, "Album")
  /\ IF albums'[1].res.ok
       THEN /\ pc' = "items"
            /\ UNCHANGED << conn, ret >>
       ELSE /\ pc' = "done"
            /\ conn' = None
            /\ ret' = Some(Err(albums'[1].res.e))
  /\ UNCHANGED << file, items >>

\* Item::read_all(&conn)? and Ok((albums, items))
ItemReadAll ==
  /\ pc = "items"
  /\ items' = Some(read_all(Item, conn[1]))
  /\ calls' = Append(calls, "Item")
  /\ pc' = "done"
  /\ conn' = None
  /\ IF items'[1].res.ok
       THEN ret' = Some(Ok(<< albums[1].res.v, items'[1].res.v >>))
       ELSE ret' = Some(Err(items'[1].res.e))
  /\ UNCHANGED << file, albums >>

Next == Open \/ AlbumReadAll \/ ItemReadAll

Spec == Init /\ [][Next]_vars

(***************************************************************************)
(* Properties                                                              *)
(***************************************************************************)
\* The Table Readers that have run, each with its schema and its output.
Readers ==
  {[S |-> Album, o |-> albums[x]] : x \in DOMAIN albums}
    \cup {[S |-> Item, o |-> items[x]] : x \in DOMAIN items}

TheDb == file[1].db
Stored(S, k) == TheDb[S.table].rows[k]
NRows(S) == Len(TheDb[S.table].rows)
Stmt(S) == Prepare(TheDb, SQL_QUERY(S))
\* The reader got as far as iterating rows, and the engine read them all.
Iterated(S) ==
  /\ Stmt(S).ok
  /\ Query(TheDb, Stmt(S).v).ok
NoStepFailure(S) == \A k \in 1 .. NRows(S) : ~Stored(S, k).corrupt
ResultRow(S, k) == Step(TheDb, Stmt(S).v, k).v
Bind(S, k) == from_row(S, ResultRow(S, k)).res
Failing(S) == {k \in 1 .. NRows(S) : ~Bind(S, k).ok}
Min(set) == CHOOSE x \in set : \A y \in set : x <= y

\* The reader's read ended in the failure to decode field i of row k.
FailedAt(r, k, i) ==
  /\ ~r.o.res.ok
  /\ r.o.res.e.kind.tag = "Row"
  /\ Len(r.o.binds) = k
  /\ Len(r.o.binds[k].reads) = i
\* Field i of row k was handed to its decoder.
Decoded(r, k, i) == k <= Len(r.o.binds) /\ i <= Len(r.o.binds[k].reads)
\* The stored cell named as field i, decoded on its own by the field's decoder.
DecodeStored(S, k, i) ==
  def_field(LocalRow(<< Stored(S, k).cells[S.fields[i].name] >>,
                     FieldTableColumn(S, S.fields[i])), 0, S.fields[i])

\* C1: a failure to prepare the schema's query is returned with kind Query,
\* wrapping the engine's error.
C1_PrepareFailureIsQuery ==
  \A r \in Readers :
    ~Stmt(r.S).ok => r.o.res = Err(Error(Stmt(r.S).e, ErrorKindQuery))

\* C2: a failure to decode a field is returned with kind Row carrying the
\* table name used in the query and the name of the field that failed.
C2_RowErrorNamesQueryTable ==
  \A r \in Readers :
    (~r.o.res.ok /\ r.o.res.e.kind.tag = "Row") =>
      r.o.res.e.kind.tc =
        TableColumn(r.S.table,
                    r.S.fields[Len(r.o.binds[Len(r.o.binds)].reads)].name)

\* C3: a file that cannot be opened makes read_all return kind Open wrapping
\* the cause, with neither Table Reader run; no other failure has kind Open.
C3_OpenFailureIsOpen ==
  /\ \A x \in DOMAIN file :
       ~file[x].opens =>
         /\ ret = Some(Err(Error(file[x].err, ErrorKindOpen)))
         /\ calls = << >>
         /\ albums = None
         /\ items = None
  /\ \A x \in DOMAIN ret :
       (~ret[x].ok /\ ret[x].e.kind.tag = "Open") => ~file[1].opens
  /\ \A r \in Readers : ~r.o.res.ok => r.o.res.e.kind.tag # "Open"
C3_Witness ==
  /\ file # None
  /\ ~file[1].opens
  /\ ret # None

\* C4: over a result set the engine reads in full, read_all returns the
\* bound rows in result order when all bind, and otherwise the error of the
\* first row that does not bind, binding no row after it.
C4_AllRowsOrFirstError ==
  \A r \in Readers :
    (Iterated(r.S) /\ NoStepFailure(r.S)) =>
      IF Failing(r.S) = {}
        THEN /\ r.o.res = Ok([k \in 1 .. NRows(r.S) |-> Bind(r.S, k).v])
             /\ [j \in 1 .. Len(r.o.binds) |-> r.o.binds[j].row]
                  = [j \in 1 .. NRows(r.S) |-> j]
        ELSE /\ r.o.res = Err(Bind(r.S, Min(Failing(r.S))).e)
             /\ [j \in 1 .. Len(r.o.binds) |-> r.o.binds[j].row]
                  = [j \in 1 .. Min(Failing(r.S)) |-> j]
C4_Witness ==
  \E r \in Readers :
    /\ Iterated(r.S)
    /\ NoStepFailure(r.S)
    /\ NRows(r.S) >= 2
    /\ Failing(r.S) = {2}
    /\ ~r.o.res.ok

\* C5: the Album reader runs before the Item reader on the opened
\* connection; the Item reader starts only after the Album reader succeeded;
\* a reader's error is returned unchanged; Ok carries both collections.
C5_AlbumThenItem ==
  /\ calls \in {<< >>, << "Album" >>, << "Album", "Item" >>}
  /\ (albums # None) = (Len(calls) >= 1)
  /\ (items # None) = (Len(calls) = 2)
  /\ calls # << >> => file[1].opens
  /\ albums # None => albums[1] = read_all(Album, TheDb)
  /\ items # None => /\ albums[1].res.ok
                     /\ items[1] = read_all(Item, TheDb)
  /\ (albums # None /\ ~albums[1].res.ok) =>
       /\ items = None
       /\ pc = "done"
       /\ ret = Some(Err(albums[1].res.e))
  /\ (items # None /\ ~items[1].res.ok) => ret = Some(Err(items[1].res.e))
  /\ \A x \in DOMAIN ret :
       ret[x].ok =>
         /\ items # None
         /\ items[1].res.ok
         /\ ret[x].v = << albums[1].res.v, items[1].res.v >>
  /\ (items # None /\ items[1].res.ok) => (ret # None /\ ret[1].ok)
C5_Witness ==
  /\ albums # None
  /\ ~albums[1].res.ok
  /\ pc = "done"
  /\ calls = << "Album" >>

\* C6: str_or_blob_to_path returns the text read when it succeeds, else the
\* lossy decoding of the bytes read at the same index; it fails only when
\* both reads fail, with the Row error of the bytes read; a blob never fails.
C6_TextThenBlob ==
  \A r \in Readers :
    \A i \in 1 .. Len(r.S.fields) :
      r.S.fields[i].func = "str_or_blob_to_path" =>
        \A k \in 1 .. Len(r.o.binds) :
          Decoded(r, k, i) =>
            LET row == ResultRow(r.S, k)
                text == RowGet(row, i - 1, "String")
                blob == RowGet(row, i - 1, "Vec<u8>")
            IN /\ FailedAt(r, k, i) = (~text.ok /\ ~blob.ok)
               /\ FailedAt(r, k, i) =>
                    r.o.res.e = Error(blob.e, ErrorKindRow(FieldTableColumn(r.S, r.S.fields[i])))
               /\ r.o.res.ok =>
                    r.o.res.v[k][r.S.fields[i].name]
                      = IF text.ok THEN text.v ELSE from_utf8_lossy(blob.v)
               /\ row[i].t = "Blob" => ~FailedAt(r, k, i)
C6_Witness ==
  \E r \in Readers :
    \E i \in 1 .. Len(r.S.fields) :
      /\ r.S.fields[i].func = "str_or_blob_to_path"
      /\ FailedAt(r, Len(r.o.binds), i)
      /\ Stored(r.S, Len(r.o.binds)).cells[r.S.fields[i].name].t = "Text"

\* C7 (as stated): for every path field, the path stored as text and the
\* same path stored as a valid UTF-8 blob both decode, to equal paths; a
\* NULL optional path decodes to no value.
C7_TextAndBlobAgree ==
  \A r \in Readers :
    \A i \in 1 .. Len(r.S.fields) :
      r.S.fields[i].func # "" =>
        \A k \in 1 .. Len(r.o.binds) :
          Decoded(r, k, i) =>
            LET f == r.S.fields[i]
                cell == Stored(r.S, k).cells[f.name]
                tc == FieldTableColumn(r.S, f)
            IN /\ (cell.t \in {"Text", "Blob"} /\ Utf8Valid(cell.b)) =>
                    /\ ~FailedAt(r, k, i)
                    /\ def_field(LocalRow(<< Text(cell.b) >>, tc), 0, f).ok
                    /\ def_field(LocalRow(<< Blob(cell.b) >>, tc), 0, f).ok
                    /\ r.o.res.ok =>
                         /\ r.o.res.v[k][f.name]
                              = def_field(LocalRow(<< Text(cell.b) >>, tc), 0, f).v
                         /\ r.o.res.v[k][f.name]
                              = def_field(LocalRow(<< Blob(cell.b) >>, tc), 0, f).v
               /\ (cell.t = "Null" /\ f.typ = "Option<PathBuf>") =>
                    /\ ~FailedAt(r, k, i)
                    /\ r.o.res.ok => r.o.res.v[k][f.name] = None

\* C7 (amended): Item.path stored as text or as a valid UTF-8 blob decodes
\* to the same path, the code points of its bytes.  Album.artpath decodes
\* to that path only when stored as a blob; stored as text it fails with a
\* Row error naming the column type; NULL decodes to no value.
C7_PathDecoding ==
  \A r \in Readers :
    \A i \in 1 .. Len(r.S.fields) :
      r.S.fields[i].func # "" =>
        \A k \in 1 .. Len(r.o.binds) :
          Decoded(r, k, i) =>
            LET f == r.S.fields[i]
                cell == Stored(r.S, k).cells[f.name]
            IN /\ (f.func = "str_or_blob_to_path" /\ cell.t \in {"Text", "Blob"}
                     /\ Utf8Valid(cell.b)) =>
                    /\ ~FailedAt(r, k, i)
                    /\ r.o.res.ok => r.o.res.v[k][f.name] = Utf8Decode(cell.b)
               /\ (f.func = "optional_blob_to_path" /\ cell.t = "Blob"
                     /\ Utf8Valid(cell.b)) =>
                    /\ ~FailedAt(r, k, i)
                    /\ r.o.res.ok => r.o.res.v[k][f.name] = Some(Utf8Decode(cell.b))
               /\ (f.func = "optional_blob_to_path" /\ cell.t = "Text") =>
                    /\ FailedAt(r, k, i)
                    /\ r.o.res.e.source.name = "InvalidColumnType"
               /\ (f.func = "optional_blob_to_path" /\ cell.t = "Null") =>
                    /\ ~FailedAt(r, k, i)
                    /\ r.o.res.ok => r.o.res.v[k][f.name] = None
C7_Witness ==
  /\ items # None
  /\ items[1].res.ok
  /\ NRows(Item) = 1
  /\ Stored(Item, 1).cells["path"] = Text(<< 195, 169 >>)

\* C8: a field skipped by is_num_zero decodes without error and is reported
\* as default both when its column is NULL and when it is an explicit zero.
C8_NullAndZeroAreDefault ==
  \A r \in Readers :
    \A i \in 1 .. Len(r.S.fields) :
      r.S.fields[i].skip = "is_num_zero" =>
        \A k \in 1 .. Len(r.o.binds) :
          (Decoded(r, k, i)
             /\ Stored(r.S, k).cells[r.S.fields[i].name] \in {Null, Integer(0)}) =>
            /\ ~FailedAt(r, k, i)
            /\ r.o.res.ok =>
                 is_num_zero(r.S.fields[i].typ, r.o.res.v[k][r.S.fields[i].name])

\* A piece of text occurs in a display.
Names(display, piece) == \E j \in 1 .. Len(display) : display[j] = piece

\* C9 (as stated): for an error of every kind, source() is the wrapped
\* storage-engine error.
C9_SourceIsWrappedError ==
  \A x \in DOMAIN ret :
    ~ret[x].ok => ErrorSource(ret[x].e) = Some(ret[x].e.source)

\* C9 (amended): source() is the wrapped error for Row, Open and Query; for
\* UnknownTransparent it is the wrapped error's own cause, and the display
\* is the wrapped error's display; Row text names table and column, Open
\* and Query text name the phase.
C9_SourceAndDisplayByKind ==
  \A x \in DOMAIN ret :
    ~ret[x].ok =>
      LET e == ret[x].e
      IN /\ e.kind.tag \in {"Row", "Open", "Query"} => ErrorSource(e) = Some(e.source)
         /\ e.kind.tag = "UnknownTransparent" =>
              /\ ErrorSource(e) = e.source.cause
              /\ ErrorSource(e) # Some(e.source)
              /\ ErrorDisplay(e) = EngineDisplay(e.source)
         /\ e.kind.tag = "Row" =>
              /\ Names(ErrorDisplay(e), e.kind.tc.table)
              /\ Names(ErrorDisplay(e), e.kind.tc.column)
              /\ e.kind.tc.table # ""
              /\ e.kind.tc.column # ""
         /\ e.kind.tag = "Open" => ErrorDisplay(e) = << "failed to open database" >>
         /\ e.kind.tag = "Query" => ErrorDisplay(e) = << "failed to query database" >>
C9_Witness ==
  /\ ret # None
  /\ ~ret[1].ok
  /\ ret[1].e.kind.tag = "UnknownTransparent"

\* C10: the query selects the N declared names in order and then id; COLUMNS
\* is the N names; the binder reads indices 0, 1, .. in order, one per field,
\* never index N; field k is bound to the decoding of the stored column of
\* its name; the first field that fails ends the row with its error.
C10_PositionalBinding ==
  \A r \in Readers :
    LET N == Len(r.S.fields)
    IN /\ SelectColumns(SQL_QUERY(r.S)) = COLUMNS(r.S) \o << "id" >>
       /\ Len(COLUMNS(r.S)) = N
       /\ \A i \in 1 .. N : COLUMNS(r.S)[i] = r.S.fields[i].name
       /\ FromTable(SQL_QUERY(r.S)) = r.S.table
       /\ \A k \in 1 .. Len(r.o.binds) :
            LET m == Len(r.o.binds[k].reads)
            IN /\ r.o.binds[k].row = k
               /\ Len(ResultRow(r.S, k)) = N + 1
               /\ m <= N
               /\ r.o.binds[k].reads = [i \in 1 .. m |-> i - 1]
               /\ \A i \in 1 .. m - 1 : DecodeStored(r.S, k, i).ok
               /\ IF FailedAt(r, k, m)
                    THEN /\ ~DecodeStored(r.S, k, m).ok
                         /\ r.o.res.e.kind = DecodeStored(r.S, k, m).e.kind
                         /\ r.o.res.e.source.name = DecodeStored(r.S, k, m).e.source.name
                         /\ r.o.res.e.source.idx = m - 1
                    ELSE /\ m = N
                         /\ DecodeStored(r.S, k, N).ok
       /\ r.o.res.ok =>
            \A k \in 1 .. Len(r.o.res.v) :
              /\ DOMAIN r.o.res.v[k] = ColumnNames(r.S)
              /\ \A i \in 1 .. N :
                   r.o.res.v[k][r.S.fields[i].name] = DecodeStored(r.S, k, i).v
C10_Witness ==
  \E r \in Readers :
    /\ Len(r.o.binds) = 2
    /\ FailedAt(r, 2, Len(r.S.fields))

=============================================================================
